---- MODULE Spec2Model ----
(***************************************************************************)
(* Model of the storage layer of invoice_manager.py (class InvoiceDB):     *)
(* the SQLite tables `invoices` and `meta`, the sequence allocator         *)
(* next_invoice_no, the CRUD calls and the filtered listing.               *)
(*                                                                         *)
(* Text values are sequences of one-character strings, so that formatting, *)
(* parsing and LIKE matching are computed character by character.          *)
(* A date text "YYYY-MM-DD" is the sequence <<YYYY, MM, DD>> of its three   *)
(* zero-padded fields (the lexical order of the text is the lexicographic  *)
(* order of the fields); <<>> is the empty text.                           *)
(***************************************************************************)
EXTENDS Integers, Sequences, FiniteSets, TLC

VARIABLES invoices, meta, last, issued, filters, listing

vars == <<invoices, meta, last, issued, filters, listing>>

(* ---------------------------------------------------------------- bounds *)
MaxRows == 2        \* rows in the invoices table (main specification)
MaxId == 3          \* largest rowid handed out
MaxCounter == 3     \* calls of next_invoice_no
MaxListRows == 2    \* rows in the tables the listing is checked on

(* ------------------------------------------------------------- constants *)
PadWidth == 5

None == [none |-> TRUE]  \* Python None: fetchone() of an empty result, no return value

INV == <<"I", "N", "V">>
SAMPLE == <<"S", "A", "M", "P", "L", "E">>
Prefixes == {INV, SAMPLE}

(* ------------------------------------------------- str(), int(), :05d    *)
Digits == <<"0", "1", "2", "3", "4", "5", "6", "7", "8", "9">>

DigitVal(c) == (CHOOSE i \in 1..10 : Digits[i] = c) - 1

RECURSIVE str(_)
str(n) == IF n < 10 THEN <<Digits[n + 1]>>
          ELSE str(n \div 10) \o <<Digits[(n % 10) + 1]>>

RECURSIVE int(_)
int(s) == IF Len(s) = 1 THEN DigitVal(s[1])
          ELSE int(SubSeq(s, 1, Len(s) - 1)) * 10 + DigitVal(s[Len(s)])

RECURSIVE zfill(_, _)
zfill(s, w) == IF Len(s) >= w THEN s ELSE zfill(<<"0">> \o s, w)

\* f"{prefix}-{last:05d}"
format_invoice_no(prefix, n) == prefix \o <<"-">> \o zfill(str(n), PadWidth)

(* ------------------------------------------------------------ the store *)
db == [invoices |-> invoices, meta |-> meta]

EmptyDB == [invoices |-> {}, meta |-> {}]

Row(id, invoice_no, date, itype, customer, items, total, notes) ==
    [id |-> id, invoice_no |-> invoice_no, date |-> date, type |-> itype,
     customer |-> customer, items |-> items, total |-> total, notes |-> notes]

\* variant: INSERT OR REPLACE writes the counter row again
create_tables_replace(d) ==
    [d EXCEPT !.meta =
        {m \in d.meta : m.k # "last_invoice"} \cup {[k |-> "last_invoice", v |-> <<"0">>]}]

\* CREATE TABLE IF NOT EXISTS keeps the rows of existing tables;
\* INSERT OR IGNORE adds the counter row only when its key is missing.
create_tables(d) ==
    [d EXCEPT !.meta =
        IF \E m \in d.meta : m.k = "last_invoice" THEN d.meta
        ELSE d.meta \cup {[k |-> "last_invoice", v |-> <<"0">>]}]

last_invoice(d) == int((CHOOSE m \in d.meta : m.k = "last_invoice").v)

\* variant: the UPDATE of the counter row is left out
next_invoice_no_not_persisted(d, prefix) ==
    LET n == last_invoice(d) + 1
    IN [db |-> d, err |-> "ok", ret |-> format_invoice_no(prefix, n)]

next_invoice_no(d, prefix) ==
    LET n == last_invoice(d) + 1
    IN [db  |-> [d EXCEPT !.meta =
                    {IF m.k = "last_invoice" THEN [m EXCEPT !.v = str(n)] ELSE m
                        : m \in d.meta}],
        err |-> "ok",
        ret |-> format_invoice_no(prefix, n)]

Max(S) == CHOOSE x \in S : \A y \in S : y <= x

\* variant: the row count plus one
new_rowid_count(rows) == Cardinality(rows) + 1

\* id INTEGER PRIMARY KEY without AUTOINCREMENT: one more than the largest rowid
new_rowid(rows) == IF rows = {} THEN 1 ELSE Max({r.id : r \in rows}) + 1

\* variant: invoice_no without the UNIQUE constraint
add_invoice_no_unique(d, invoice_no, date, itype, customer, items_text, total, notes) ==
    LET id == new_rowid(d.invoices)
    IN [db  |-> [d EXCEPT !.invoices = @ \cup
                   {Row(id, invoice_no, date, itype, customer, items_text, total, notes)}],
        err |-> "ok",
        ret |-> id]

\* variant: items and notes bound to each other's column
add_invoice_swapped(d, invoice_no, date, itype, customer, items_text, total, notes) ==
    IF \E r \in d.invoices : r.invoice_no = invoice_no
    THEN [db |-> d, err |-> "IntegrityError", ret |-> None]
    ELSE LET id == new_rowid(d.invoices)
         IN [db  |-> [d EXCEPT !.invoices = @ \cup
                        {Row(id, invoice_no, date, itype, customer, notes, total, items_text)}],
             err |-> "ok",
             ret |-> id]

add_invoice(d, invoice_no, date, itype, customer, items_text, total, notes) ==
    IF \E r \in d.invoices : r.invoice_no = invoice_no
    THEN [db |-> d, err |-> "IntegrityError", ret |-> None]
    ELSE LET id == new_rowid(d.invoices)
         IN [db  |-> [d EXCEPT !.invoices = @ \cup
                        {Row(id, invoice_no, date, itype, customer, items_text, total, notes)}],
             err |-> "ok",
             ret |-> id]

\* variant: the UPDATE overwrites without the UNIQUE constraint
update_invoice_no_unique(d, id_, invoice_no, date, itype, customer, items_text, total, notes) ==
    [db  |-> [d EXCEPT !.invoices =
                {IF r.id = id_
                 THEN Row(r.id, invoice_no, date, itype, customer, items_text, total, notes)
                 ELSE r : r \in d.invoices}],
     err |-> "ok",
     ret |-> None]

\* variant: the invoice_no is checked before the row is looked up
update_invoice_check_first(d, id_, invoice_no, date, itype, customer, items_text, total, notes) ==
    IF \E r \in d.invoices : r.id # id_ /\ r.invoice_no = invoice_no
    THEN [db |-> d, err |-> "IntegrityError", ret |-> None]
    ELSE [db  |-> [d EXCEPT !.invoices =
                    {IF r.id = id_
                     THEN Row(r.id, invoice_no, date, itype, customer, items_text, total, notes)
                     ELSE r : r \in d.invoices}],
          err |-> "ok",
          ret |-> None]

update_invoice(d, id_, invoice_no, date, itype, customer, items_text, total, notes) ==
    IF /\ \E r \in d.invoices : r.id = id_
       /\ \E r \in d.invoices : r.id # id_ /\ r.invoice_no = invoice_no
    THEN [db |-> d, err |-> "IntegrityError", ret |-> None]
    ELSE [db  |-> [d EXCEPT !.invoices =
                    {IF r.id = id_
                     THEN Row(r.id, invoice_no, date, itype, customer, items_text, total, notes)
                     ELSE r : r \in d.invoices}],
          err |-> "ok",
          ret |-> None]

\* variant: DELETE without the WHERE clause
delete_invoice_all(d, id_) ==
    [db  |-> [d EXCEPT !.invoices = {}],
     err |-> "ok",
     ret |-> None]

delete_invoice(d, id_) ==
    [db  |-> [d EXCEPT !.invoices = {r \in d.invoices : r.id # id_}],
     err |-> "ok",
     ret |-> None]

get_invoice(d, id_) ==
    IF \E r \in d.invoices : r.id = id_
    THEN CHOOSE r \in d.invoices : r.id = id_
    ELSE None

(* ------------------------------------------------------ inputs of calls *)
Inward == <<"I", "n", "w", "a", "r", "d">>
Outward == <<"O", "u", "t", "w", "a", "r", "d">>

Payloads ==
    { [date |-> <<2024, 1, 10>>, type |-> Outward, customer |-> <<"A", "c">>,
       items |-> <<"w">>, total |-> 50, notes |-> <<>>],
      [date |-> <<2024, 2, 29>>, type |-> Inward, customer |-> <<"b">>,
       items |-> <<"i", "\n", "j">>, total |-> 0, notes |-> <<"n">>] }

InvoiceNos == {format_invoice_no(INV, 1), format_invoice_no(INV, 2), <<"X">>}

Ids == 1..MaxId

(* ---------------------------------------------------- filtered listing *)
\* SQLite date(): NULL unless the text is YYYY-MM-DD with month 01..12 and
\* day 01..31; the text of a real calendar date is returned as it is.
\* NULL is written <<>> here: no date() result is the empty text.
NULL == <<>>

date(t) == IF Len(t) = 3 /\ t[2] \in 1..12 /\ t[3] \in 1..31 THEN t ELSE NULL

\* order of two date() results that are not NULL
DateLeq(a, b) ==
    \/ a[1] < b[1]
    \/ a[1] = b[1] /\ a[2] < b[2]
    \/ a[1] = b[1] /\ a[2] = b[2] /\ a[3] <= b[3]

\* variant: > in place of >=
SqlGeq_strict(a, b) == a # NULL /\ b # NULL /\ DateLeq(b, a) /\ a # b

\* a comparison with NULL is NULL, and a NULL condition selects no row
SqlGeq(a, b) == a # NULL /\ b # NULL /\ DateLeq(b, a)
SqlLeq(a, b) == a # NULL /\ b # NULL /\ DateLeq(a, b)

\* LIKE folds the case of ASCII letters
Fold(c) == CASE c = "A" -> "a" [] c = "B" -> "b" [] c = "C" -> "c" [] OTHER -> c

RECURSIVE Like(_, _)
Like(s, p) ==
    IF p = <<>> THEN s = <<>>
    ELSE IF Head(p) = "%" THEN Like(s, Tail(p)) \/ (s # <<>> /\ Like(Tail(s), p))
    ELSE IF s = <<>> THEN FALSE
    ELSE /\ Head(p) = "_" \/ Fold(Head(p)) = Fold(Head(s))
         /\ Like(Tail(s), Tail(p))

\* 'k' in filters and filters[k]
Active(f, k) == k \in DOMAIN f /\ f[k] # <<>>

Selected(d, f) ==
    { r \in d.invoices :
        /\ Active(f, "type") => r.type = f["type"]
        /\ Active(f, "customer") => Like(r.customer, <<"%">> \o f["customer"] \o <<"%">>)
        /\ Active(f, "invoice_no") => Like(r.invoice_no, <<"%">> \o f["invoice_no"] \o <<"%">>)
        /\ Active(f, "date_from") => SqlGeq(date(r.date), date(f["date_from"]))
        /\ Active(f, "date_to") => SqlLeq(date(r.date), date(f["date_to"])) }

Projection(r) == <<r.id, r.invoice_no, r.date, r.type, r.customer, r.total>>

\* ORDER BY date(date) DESC: NULL sorts last, the order of ties is not fixed
OrderedDesc(s) ==
    \A i, j \in 1..Len(s) :
        i < j => \/ date(s[j].date) = NULL
                 \/ date(s[i].date) # NULL /\ DateLeq(date(s[j].date), date(s[i].date))

\* the result sets fetchall() can return
list_invoices(d, f) ==
    LET sel == Selected(d, f)
        n == Cardinality(sel)
    IN { [i \in 1..n |-> Projection(s[i])] :
            s \in { t \in [1..n -> sel] :
                      /\ \A i, j \in 1..n : i # j => t[i] # t[j]
                      /\ OrderedDesc(t) } }

(* --------------------------------------------------------------- actions *)
NoCall == [op |-> "init"]

Init ==
    /\ invoices = create_tables(EmptyDB).invoices
    /\ meta = create_tables(EmptyDB).meta
    /\ last = NoCall
    /\ issued = <<>>
    /\ filters = <<>>
    /\ listing = <<>>

\* a call, its arguments and its outcome; n is the row count before the call
Call(op, args) ==
    [op |-> op, args |-> args, n |-> Cardinality(invoices), err |-> "ok", ret |-> None]

Apply(r, call) ==
    /\ invoices' = r.db.invoices
    /\ meta' = r.db.meta
    /\ last' = [call EXCEPT !.err = r.err, !.ret = r.ret]

\* InvoiceDB.__init__ on the existing database file (a restart of the program)
CreateTables ==
    /\ Apply([db |-> create_tables(db), err |-> "ok", ret |-> None],
             Call("create_tables", <<>>))
    /\ UNCHANGED <<issued, filters, listing>>

NextInvoiceNo ==
    \E prefix \in Prefixes :
        /\ last_invoice(db) < MaxCounter
        /\ Apply(next_invoice_no(db, prefix), Call("next_invoice_no", [prefix |-> prefix]))
        /\ issued' = Append(issued, [prefix |-> prefix, no |-> next_invoice_no(db, prefix).ret])
        /\ UNCHANGED <<filters, listing>>

AddInvoice ==
    \E no \in InvoiceNos, p \in Payloads :
        LET r == add_invoice(db, no, p.date, p.type, p.customer, p.items, p.total, p.notes)
        IN /\ Cardinality(r.db.invoices) <= MaxRows
           /\ \A row \in r.db.invoices : row.id <= MaxId
           /\ Apply(r, Call("add_invoice", [invoice_no |-> no, p |-> p]))
           /\ UNCHANGED <<issued, filters, listing>>

UpdateInvoice ==
    \E id \in Ids, no \in InvoiceNos, p \in Payloads :
        /\ Apply(update_invoice(db, id, no, p.date, p.type, p.customer, p.items, p.total, p.notes),
                 Call("update_invoice", [id |-> id, invoice_no |-> no, p |-> p]))
        /\ UNCHANGED <<issued, filters, listing>>

DeleteInvoice ==
    \E id \in Ids :
        /\ Apply(delete_invoice(db, id), Call("delete_invoice", [id |-> id]))
        /\ UNCHANGED <<issued, filters, listing>>

Next ==
    \/ CreateTables
    \/ NextInvoiceNo
    \/ AddInvoice
    \/ UpdateInvoice
    \/ DeleteInvoice

Spec == Init /\ [][Next]_vars

(* ------------------------------------------- the listing on given tables *)
\* Tables the calls above can build: rows with distinct ids and distinct
\* invoice numbers, any text in the other columns.
ListTypes == {Inward, Outward}
ListCustomers == {<<"A", "c">>, <<"b", "_">>}
ListDates == {<<2024, 2, 29>>, <<2024, 3, 1>>, <<2024, 13, 1>>}

ListRow(i, b) == Row(i, str(i), b.date, b.type, b.customer, <<"w">>, 50, <<>>)

ListTables ==
    { {ListRow(i, t[i]) : i \in S} :
        S \in SUBSET (1..MaxListRows),
        t \in [1..MaxListRows -> [date : ListDates, type : ListTypes, customer : ListCustomers]] }

\* filter texts; <<>> is the empty entry of the search form
FilterKeys == {"type", "customer", "invoice_no", "date_from", "date_to"}

FilterTexts ==
    [type : {<<>>, Inward},
     customer : {<<>>, <<"a">>, <<"_">>},
     invoice_no : {<<>>, <<"1">>},
     date_from : {<<>>, <<2024, 2, 29>>, <<2024, 3, 1>>, <<2024, 13, 1>>},
     date_to : {<<>>, <<2024, 2, 29>>, <<2024, 13, 1>>}]

\* a dictionary with every key, or with the empty entries left out
Filters ==
    { [k \in FilterKeys |-> g[k]] : g \in FilterTexts }
    \cup { [k \in {x \in FilterKeys : g[x] # <<>>} |-> g[k]] : g \in FilterTexts }

InitList ==
    /\ invoices \in ListTables
    /\ meta = create_tables(EmptyDB).meta
    /\ last = NoCall
    /\ issued = <<>>
    /\ filters \in Filters
    /\ listing = <<>>

\* InvoiceApp.load_invoices: the listing under the filters of the search form
ListInvoices ==
    \E res \in list_invoices(db, filters) :
        /\ listing' = res
        /\ last' = Call("list_invoices", <<>>)
        /\ UNCHANGED <<invoices, meta, issued, filters>>

NextList == ListInvoices

SpecList == InitList /\ [][NextList]_vars

(* ================================================================ claims *)
StoredIds == {r.id : r \in invoices}

IsDigit(c) == \E i \in 1..10 : Digits[i] = c

(* C1: in every reachable state no two stored invoices have the same
   invoice_no. *)
C1_UniqueInvoiceNo ==
    \A r1, r2 \in invoices : r1.invoice_no = r2.invoice_no => r1 = r2

C1_Witness ==
    /\ Cardinality(invoices) = 2
    /\ last.op = "update_invoice" /\ last.err = "ok"
    /\ issued # <<>>

(* C2: an add_invoice, or an update_invoice of another stored record, whose
   invoice_no is that of a stored invoice fails with IntegrityError; after
   the failure every stored invoice is unmodified and still returned by
   get_invoice, no record was created and the counter is unchanged. *)
DuplicateAdd ==
    /\ last'.op = "add_invoice"
    /\ \E r \in invoices : r.invoice_no = last'.args.invoice_no

DuplicateUpdate ==
    /\ last'.op = "update_invoice"
    /\ \E r \in invoices : r.id = last'.args.id
    /\ \E r \in invoices : r.id # last'.args.id /\ r.invoice_no = last'.args.invoice_no

C2_DuplicateRejected ==
    [][(DuplicateAdd \/ DuplicateUpdate) =>
          /\ last'.err = "IntegrityError"
          /\ invoices' = invoices
          /\ \A r \in invoices : get_invoice(db', r.id) = r
          /\ meta' = meta]_vars

C2_Witness ==
    /\ last.op = "update_invoice" /\ last.err = "IntegrityError"
    /\ Cardinality(invoices) = 2
    /\ last_invoice(db) > 0

(* C3: each next_invoice_no(prefix) raises the persisted counter by exactly
   1 and returns prefix, "-" and the new value zero-padded to 5 digits; the
   number differs from every number returned before and its numeric suffix
   is larger than each of theirs. *)
Suffix(e) == SubSeq(e.no, Len(e.prefix) + 2, Len(e.no))

C3_NextInvoiceNo ==
    [][last'.op = "next_invoice_no" =>
          LET e == [prefix |-> last'.args.prefix, no |-> last'.ret]
          IN /\ last_invoice(db') = last_invoice(db) + 1
             /\ SubSeq(e.no, 1, Len(e.prefix)) = e.prefix
             /\ e.no[Len(e.prefix) + 1] = "-"
             /\ \A i \in 1..Len(Suffix(e)) : IsDigit(Suffix(e)[i])
             /\ Len(Suffix(e)) >= PadWidth
             /\ Len(Suffix(e)) > PadWidth => Suffix(e)[1] # "0"
             /\ int(Suffix(e)) = last_invoice(db')
             /\ issued' = Append(issued, e)
             /\ \A i \in 1..Len(issued) :
                    /\ issued[i].no # e.no
                    /\ int(Suffix(issued[i])) < int(Suffix(e))]_vars

C3_Witness ==
    /\ last.op = "next_invoice_no"
    /\ Len(issued) >= 3
    /\ issued[1].prefix # issued[2].prefix
    /\ invoices # {}

(* C4: add_invoice with an invoice_no that is not stored succeeds and
   returns an id for which get_invoice returns the supplied invoice_no,
   date, type, customer, items, total and notes; every record stored before
   is unchanged. *)
C4_AddThenGet ==
    [][(/\ last'.op = "add_invoice"
        /\ last'.args.invoice_no \notin {r.invoice_no : r \in invoices})
       => /\ last'.err = "ok"
          /\ LET g == get_invoice(db', last'.ret)
                 a == last'.args
             IN /\ g # None
                /\ g.invoice_no = a.invoice_no
                /\ g.date = a.p.date
                /\ g.type = a.p.type
                /\ g.customer = a.p.customer
                /\ g.items = a.p.items
                /\ g.total = a.p.total
                /\ g.notes = a.p.notes
          /\ \A r \in invoices : get_invoice(db', r.id) = r]_vars

C4_Witness ==
    /\ last.op = "add_invoice" /\ last.err = "ok"
    /\ last.n = 1
    /\ last.ret < MaxId
    /\ get_invoice(db, last.ret) # None

(* C7: delete_invoice of an id that is not stored raises nothing and leaves
   the stored invoices and the counter unchanged; of a stored id it removes
   exactly that record, get_invoice then reports not found, and the other
   records are unchanged. *)
C7_Delete ==
    [][last'.op = "delete_invoice" =>
          /\ last'.err = "ok"
          /\ meta' = meta
          /\ IF last'.args.id \in StoredIds
             THEN /\ invoices' = invoices \ {get_invoice(db, last'.args.id)}
                  /\ Cardinality(invoices') = Cardinality(invoices) - 1
                  /\ get_invoice(db', last'.args.id) = None
             ELSE invoices' = invoices]_vars

C7_Witness ==
    /\ last.op = "delete_invoice"
    /\ last.n = 2
    /\ Cardinality(invoices) = 2
    /\ last_invoice(db) > 0

(* C8: update_invoice of an id that is not stored raises nothing, creates
   no record and leaves every stored invoice and the counter unchanged, also
   when the invoice_no passed is that of a stored invoice. *)
C8_UpdateMissing ==
    [][last'.op = "update_invoice" /\ last'.args.id \notin StoredIds =>
          /\ last'.err = "ok"
          /\ invoices' = invoices
          /\ meta' = meta]_vars

C8_Witness ==
    /\ last.op = "update_invoice"
    /\ last.args.id \notin StoredIds
    /\ \E r \in invoices : r.invoice_no = last.args.invoice_no
    /\ last.err = "ok"

(* C9: the counter starts at 0, is always a non-negative integer, never
   decreases, changes only in next_invoice_no, and running create_tables
   again leaves the counter and the stored invoices unchanged. *)
CounterText == (CHOOSE m \in meta : m.k = "last_invoice").v

C9_Counter ==
    /\ last_invoice(db) = 0
    /\ [](/\ Cardinality({m \in meta : m.k = "last_invoice"}) = 1
          /\ Len(CounterText) > 0
          /\ \A i \in 1..Len(CounterText) : IsDigit(CounterText[i])
          /\ last_invoice(db) >= 0)
    /\ [][/\ last_invoice(db') >= last_invoice(db)
          /\ last_invoice(db') # last_invoice(db) => last'.op = "next_invoice_no"
          /\ last'.op = "create_tables" => invoices' = invoices /\ meta' = meta]_vars

C9_Witness ==
    /\ last.op = "create_tables"
    /\ last_invoice(db) > 1
    /\ invoices # {}

(* C10: update_invoice changes the id of no record, add_invoice assigns an
   id that no stored invoice has, and in every reachable state no two
   stored invoices share an id. *)
C10_Ids ==
    /\ [](\A r1, r2 \in invoices : r1.id = r2.id => r1 = r2)
    /\ [][/\ last'.op = "update_invoice" =>
                /\ {r.id : r \in invoices'} = StoredIds
                /\ \A r \in invoices : \E q \in invoices' :
                       /\ q.id = r.id
                       /\ r.id # last'.args.id => q = r
          /\ last'.op = "add_invoice" /\ last'.err = "ok" =>
                /\ last'.ret \notin StoredIds
                /\ {r.id : r \in invoices'} = StoredIds \cup {last'.ret}]_vars

C10_Witness ==
    /\ last.op = "add_invoice" /\ last.err = "ok"
    /\ last.ret = 3
    /\ StoredIds = {2, 3}

(* ------------------------------------------------ claims on the listing *)
Listed == {listing[i] : i \in 1..Len(listing)}

Without(f, k) == [x \in DOMAIN f \ {k} |-> f[x]]

Only(f, k) == [x \in DOMAIN f \cap {k} |-> f[x]]

\* t occurs in s as a substring, letters compared without regard to case
Contains(s, t) ==
    \E i \in 0..(Len(s) - Len(t)) :
        \A j \in 1..Len(t) : Fold(s[i + j]) = Fold(t[j])

(* C5: list_invoices combines the non-empty filter keys with AND; a
   non-empty type filter returns only records of exactly that type; a
   non-empty customer filter returns exactly the stored records (among those
   the other keys select) whose customer contains the filter text as a
   substring; an absent or empty key places no constraint. *)
C5_TypeAndCustomer ==
    last.op = "list_invoices" =>
        /\ Len(listing) = Cardinality(Listed)
        /\ Listed = {Projection(r) : r \in Selected(db, filters)}
        /\ Selected(db, filters) =
              {r \in invoices : \A k \in FilterKeys : r \in Selected(db, Only(filters, k))}
        /\ \A k \in FilterKeys :
              ~ Active(filters, k) => Selected(db, filters) = Selected(db, Without(filters, k))
        /\ Active(filters, "type") =>
              \A i \in 1..Len(listing) : listing[i][4] = filters["type"]
        /\ Active(filters, "customer") =>
              Listed = {Projection(r) : r \in
                          {q \in Selected(db, Without(filters, "customer")) :
                              Contains(q.customer, filters["customer"])}}

(* C6: with date_from and/or date_to given, list_invoices returns exactly
   the stored records (among those the other keys select) whose date text
   lies within the inclusive bounds, a side whose key is absent or empty
   being unbounded; when date_from > date_to the result is empty. *)
TextLeq(a, b) == a = <<>> \/ (b # <<>> /\ DateLeq(a, b))

NoDates(f) == Without(Without(f, "date_from"), "date_to")

C6_DateRangeLexical ==
    last.op = "list_invoices" =>
        /\ Listed = {Projection(r) : r \in
                       {q \in Selected(db, NoDates(filters)) :
                          /\ Active(filters, "date_from") => TextLeq(filters["date_from"], q.date)
                          /\ Active(filters, "date_to") => TextLeq(q.date, filters["date_to"])}}
        /\ (/\ Active(filters, "date_from") /\ Active(filters, "date_to")
            /\ ~ TextLeq(filters["date_from"], filters["date_to"])) => listing = <<>>

(* C6 as amended: a bound counts when it is valid date text, and a record
   when its date is valid date text within the inclusive bounds; a record
   whose date is not valid date text is left out whenever a bound is given,
   a given bound that is not valid date text leaves nothing, and so does
   date_from > date_to. *)
ValidDate(t) == Len(t) = 3 /\ t[2] \in 1..12 /\ t[3] \in 1..31

C6_DateRange ==
    last.op = "list_invoices" =>
        LET from == Active(filters, "date_from")
            to == Active(filters, "date_to")
        IN /\ Listed = {Projection(r) : r \in
                          {q \in Selected(db, NoDates(filters)) :
                             /\ from \/ to => ValidDate(q.date)
                             /\ from => /\ ValidDate(filters["date_from"])
                                        /\ TextLeq(filters["date_from"], q.date)
                             /\ to => /\ ValidDate(filters["date_to"])
                                      /\ TextLeq(q.date, filters["date_to"])}}
           /\ (from /\ to /\ ~ TextLeq(filters["date_from"], filters["date_to"]))
                 => listing = <<>>
           /\ (from /\ ~ ValidDate(filters["date_from"])) => listing = <<>>
           /\ (to /\ ~ ValidDate(filters["date_to"])) => listing = <<>>

C6_Witness ==
    /\ last.op = "list_invoices"
    /\ Active(filters, "date_from") /\ Active(filters, "date_to")
    /\ filters["date_from"] = filters["date_to"]
    /\ Len(listing) = 1
    /\ Cardinality(invoices) = 2
    /\ \E r \in invoices : ~ ValidDate(r.date)

(* ------------------------------------------- claims on the numbering *)
(* C11: a number returned by next_invoice_no differs from the invoice_no of
   every invoice stored at that moment (so that saving a new invoice under
   its freshly allocated number cannot fail on the UNIQUE constraint),
   whatever free-text numbers add_invoice and update_invoice have stored. *)
C11_AllocatedNumberUnused ==
    last.op = "next_invoice_no" =>
        last.ret \notin {r.invoice_no : r \in invoices}

====
